---- MODULE Spec2Model ----
(***************************************************************************)
(* The LNURL-pay callback of hermes and the settlement pipeline behind it  *)
(* (src/src/router/handlers/lnurlp/callback.rs): handle_callback issues an *)
(* invoice, records it in the invoice ledger, subscribes to the invoice's  *)
(* settlement stream and spawns a detached watcher task; the watcher, on   *)
(* Claimed, settles the ledger row, mints notes and sends them to the      *)
(* recipient.                                                              *)
(*                                                                         *)
(* Every await of the source is a step of its own: other tasks of the      *)
(* multi-worker runtime interleave there, and the awaited call may fail.   *)
(***************************************************************************)
EXTENDS Integers, Sequences, FiniteSets, TLC

\* ------------------------------------------------------------------ bounds
\* Number of callback requests the server receives.
MaxReq == 2
\* Width of the amount integers: the source's u64 / i64 pair, scaled down to
\* a width TLC's integers can hold; the casts wrap at this width.
AmountBits == 13

\* --------------------------------------------------------------- constants
MIN_AMOUNT == 1000

Requests == 1..MaxReq
Ids == 1..MaxReq
None == "None"

U64Range == 2 ^ AmountBits
I64Max == 2 ^ (AmountBits - 1) - 1

\* Request amounts: below the minimum, the minimum, and the largest u64 (above
\* the signed maximum).
Amounts == {MIN_AMOUNT - 1, MIN_AMOUNT, U64Range - 1}
Usernames == {"alice", "bob"}

\* ----------------------------------------------------------- pure functions
\* `params.amount as i64`: a two's-complement reinterpretation.
AsI64Saturating(a) == IF a > I64Max THEN I64Max ELSE a
AsI64(a) == IF a > I64Max THEN a - U64Range ELSE a

\* `invoice.amount as u64`: the reinterpretation back.
AsU64(x) == x % U64Range

\* `params.amount < MIN_AMOUNT`
BelowMinimumLax(amount) == amount < MIN_AMOUNT - 1
BelowMinimum(amount) == amount < MIN_AMOUNT

\* The invoice service's fresh operation id and invoice for one request:
\* distinct calls yield distinct ids.
OperationId(r) == <<"op", r>>
Bolt11Invoice(op, amount) == [payment_of |-> op, msats |-> amount]

\* `op_id.to_string()` and `pr.to_string()`
OpIdToString(op) == <<"opstr", op[2]>>
Bolt11ToString(pr) == <<"lnbc", pr.msats, pr.payment_of[2]>>

\* format!("http://{}:{}/lnurlp/{}/verify/{}", domain, port, username, op_id)
VerifyUrl(username, op) ==
    [scheme |-> "http", host |-> "CONFIG.domain", port |-> "CONFIG.port",
     path |-> <<"lnurlp", username, "verify", OpIdToString(op)>>]

\* What `stream.next()` yields: a settlement event of LnReceiveState, that is
\* Canceled, Claimed or one of the variants the watcher ignores ("Funded"
\* stands for them), or the end of the stream. The stream is lazy and
\* unbounded: each call yields whatever the invoice service delivers next.
Events == {"Canceled", "Claimed", "Funded"}
StreamNext == Events \cup {"EndOfStream"}

\* ------------------------------------------------ collaborators not in src/
\* Recipient Directory as the server finds it: alice is registered, bob is not.
Registered == [name \in {"alice"} |-> [name |-> name, pubkey |-> "pk_alice"]]

NoContact == [name |-> None, pubkey |-> None]

\* AppError's status for each kind of failure.
StatusOf(kind) ==
    CASE kind = "Ok" -> 200
      [] kind = "Validation" -> 400
      [] kind = "NotFound" -> 404
      [] OTHER -> 500

\* Invoice Ledger: insert appends a Pending row and returns its id.
InvoiceBmc_create(rows, c) ==
    Append(rows, [id |-> Len(rows) + 1, op_id |-> c.op_id, amount |-> c.amount,
                  bolt11 |-> c.bolt11, state |-> "Pending"])

\* Invoice Ledger: settle marks the row Settled and returns the updated row.
InvoiceBmc_settle(rows, id) ==
    [rows EXCEPT ![id].state = "Settled"]

\* ------------------------------------------------------------------- state
VARIABLES
    handler,    \* per request: position and locals of handle_callback
    response,   \* per request: the HTTP response, NoResponse until returned
    invoices,   \* operation ids that exist at the invoice service
    ledger,     \* the invoice ledger: a sequence of rows, row i has id i
    watcher,    \* per ledger id: the spawned watcher task (canceled: whether
                \* its stream has yielded Canceled to it; last: what the stream
                \* yielded last; spawns: how many tasks were spawned for the id)
    settled,    \* per ledger id: number of Pending -> Settled transitions
    notified,   \* per ledger id: number of calls of notify_user
    minted,     \* per ledger id: the amounts passed to spend_notes
    sent,       \* per ledger id: the payloads sent by send_direct_msg
    directory   \* the Recipient Directory: username -> registered contact

vars ==
    <<handler, response, invoices, ledger, watcher, settled, notified, minted, sent,
      directory>>

\* Recipient Directory: the registration of a username, NoContact if none.
Nip05RelaysBmc_get_by(username) ==
    IF username \in DOMAIN directory THEN directory[username] ELSE NoContact

IdleHandler ==
    [pc |-> "idle", username |-> None, amount |-> 0, nip05relays |-> NoContact,
     op_id |-> <<>>, pr |-> <<>>, id |-> 0, failed |-> None]

NoWatcher ==
    [pc |-> "none", op_id |-> <<>>, nip05relays |-> NoContact, invoice_amount |-> 0,
     canceled |-> FALSE, last |-> None, spawns |-> 0]

NoResponse == [status |-> 0, pr |-> <<>>, verify |-> <<>>]

Init ==
    /\ handler = [r \in Requests |-> IdleHandler]
    /\ response = [r \in Requests |-> NoResponse]
    /\ invoices = {}
    /\ ledger = <<>>
    /\ watcher = [i \in Ids |-> NoWatcher]
    /\ settled = [i \in Ids |-> 0]
    /\ notified = [i \in Ids |-> 0]
    /\ minted = [i \in Ids |-> <<>>]
    /\ sent = [i \in Ids |-> <<>>]
    /\ directory = Registered

\* AppError rendered as the HTTP response.
ErrorResponse(kind) == [status |-> StatusOf(kind), pr |-> <<>>, verify |-> <<>>]

\* `return Err(..)` / `?`: the handler ends with the error as its response.
ReturnErr(r, step, kind) ==
    /\ handler' = [handler EXCEPT ![r].pc = "done", ![r].failed = step]
    /\ response' = [response EXCEPT ![r] = ErrorResponse(kind)]

\* ---------------------------------------------------------- handle_callback
\* A request arrives; the amount check of lines 77-82.
Receive(r, username, amount) ==
    /\ handler[r].pc = "idle"
    /\ IF BelowMinimum(amount)
       THEN /\ handler' = [handler EXCEPT ![r].pc = "done", ![r].username = username,
                                          ![r].amount = amount, ![r].failed = "amount"]
            /\ response' = [response EXCEPT ![r] = ErrorResponse("Validation")]
       ELSE /\ handler' = [handler EXCEPT ![r].pc = "get_by", ![r].username = username,
                                          ![r].amount = amount]
            /\ UNCHANGED response
    /\ UNCHANGED <<invoices, ledger, watcher, settled, notified, minted, sent, directory>>

\* Line 83: resolve the username; `?` returns the lookup's error.
GetByOr(r, onMissing) ==
    /\ handler[r].pc = "get_by"
    /\ LET found == Nip05RelaysBmc_get_by(handler[r].username)
       IN  IF found = NoContact /\ onMissing = "return"
           THEN ReturnErr(r, "get_by", "NotFound")
           ELSE /\ handler' = [handler EXCEPT ![r].pc = "create_bolt11_invoice",
                                              ![r].nip05relays = found]
                /\ UNCHANGED response
    /\ UNCHANGED <<invoices, ledger, watcher, settled, notified, minted, sent, directory>>

GetByIgnoringMissing(r) == GetByOr(r, "continue")
GetBy(r) == GetByOr(r, "return")

\* Lines 85-95: ask the invoice service for an invoice; `?` returns its error.
CreateBolt11InvoiceThen(r, next) ==
    /\ handler[r].pc = "create_bolt11_invoice"
    /\ \E ok \in BOOLEAN :
        IF ok
        THEN LET op == OperationId(r)
             IN  /\ invoices' = invoices \cup {op}
                 /\ handler' = [handler EXCEPT
                        ![r].pc = next, ![r].op_id = op,
                        ![r].pr = Bolt11Invoice(op, handler[r].amount)]
                 /\ UNCHANGED response
        ELSE /\ ReturnErr(r, "create_bolt11_invoice", "UpstreamService")
             /\ UNCHANGED invoices
    /\ UNCHANGED <<ledger, watcher, settled, notified, minted, sent, directory>>

CreateBolt11InvoiceThenRespond(r) == CreateBolt11InvoiceThen(r, "respond")
CreateBolt11Invoice(r) == CreateBolt11InvoiceThen(r, "create")

\* Lines 100-104: the record handed to the ledger.
InvoiceForCreateSwapped(h) ==
    [op_id |-> Bolt11ToString(h.pr), amount |-> AsI64(h.amount),
     bolt11 |-> OpIdToString(h.op_id)]
InvoiceForCreate(h) ==
    [op_id |-> OpIdToString(h.op_id), amount |-> AsI64(h.amount),
     bolt11 |-> Bolt11ToString(h.pr)]

\* Lines 97-106: insert the invoice into the ledger; `?` returns its error.
CreateAnswering(r, kind) ==
    /\ handler[r].pc = "create"
    /\ \E ok \in BOOLEAN :
        IF ok
        THEN /\ ledger' = InvoiceBmc_create(ledger, InvoiceForCreate(handler[r]))
             /\ handler' = [handler EXCEPT ![r].pc = "subscribe_ln_receive",
                                           ![r].id = Len(ledger) + 1]
             /\ UNCHANGED response
        ELSE /\ ReturnErr(r, "create", kind)
             /\ UNCHANGED ledger
    /\ UNCHANGED <<invoices, watcher, settled, notified, minted, sent, directory>>

CreateSwallowingError(r) == CreateAnswering(r, "Ok")
Create(r) == CreateAnswering(r, "Persistence")

\* Lines 108-114: subscribe to the operation's settlement stream (a failure
\* panics the handler: `expect`), then spawn the watcher with the row id, the
\* resolved contact and the subscription.
SubscribeAndSpawnFor(r, id) ==
    /\ handler[r].pc = "subscribe_ln_receive"
    /\ \E ok \in BOOLEAN :
        IF ok
        THEN /\ watcher' = [watcher EXCEPT ![id] =
                    [pc |-> "Watching", op_id |-> handler[r].op_id,
                     nip05relays |-> handler[r].nip05relays, invoice_amount |-> 0,
                     canceled |-> FALSE, last |-> None, spawns |-> @.spawns + 1]]
             /\ handler' = [handler EXCEPT ![r].pc = "respond"]
        ELSE /\ handler' = [handler EXCEPT ![r].pc = "panicked",
                                           ![r].failed = "subscribe_ln_receive"]
             /\ UNCHANGED watcher
    /\ UNCHANGED <<response, invoices, ledger, settled, notified, minted, sent, directory>>

SubscribeAndSpawnForFirstRow(r) == SubscribeAndSpawnFor(r, 1)
SubscribeAndSpawn(r) == SubscribeAndSpawnFor(r, handler[r].id)

\* Lines 116-133: build the verify URL and return the success envelope.
RespondWhen(r, ready) ==
    /\ handler[r].pc = "respond"
    /\ ready
    /\ handler' = [handler EXCEPT ![r].pc = "done"]
    /\ response' = [response EXCEPT ![r] =
           [status |-> StatusOf("Ok"), pr |-> Bolt11ToString(handler[r].pr),
            verify |-> VerifyUrl(handler[r].username, handler[r].op_id)]]
    /\ UNCHANGED <<invoices, ledger, watcher, settled, notified, minted, sent, directory>>

WatcherFinished(r) ==
    \E i \in Ids : /\ i = handler[r].id
                   /\ watcher[i].pc \notin {"none", "Watching"}

RespondAfterSettlement(r) == RespondWhen(r, WatcherFinished(r))
Respond(r) == RespondWhen(r, TRUE)

\* ----------------------------------- the task of spawn_invoice_subscription
\* Lines 144-149 and 160: take what the stream yields next. Canceled ends the
\* loop, Claimed starts the settlement, any other event is ignored; the end of
\* the stream ends the loop.
NextEventStepping(i, op_state, onCanceled, onClaimed, onOther) ==
    /\ watcher[i].pc = "Watching"
    /\ watcher' = [watcher EXCEPT
           ![i].pc = CASE op_state = "EndOfStream" -> "Ended"
                       [] op_state = "Canceled" -> onCanceled
                       [] op_state = "Claimed" -> onClaimed
                       [] OTHER -> onOther,
           ![i].canceled = @ \/ op_state = "Canceled",
           ![i].last = op_state]
    /\ UNCHANGED <<handler, response, invoices, ledger, settled, notified, minted, sent, directory>>

NextEventOnCanceled(i, op_state, after) ==
    NextEventStepping(i, op_state, after, "Settling", "Watching")

NextEventIgnoringCanceled(i, op_state) == NextEventOnCanceled(i, op_state, "Watching")
NextEventNotifyingFirst(i, op_state) ==
    NextEventStepping(i, op_state, "Canceled", "Minting", "Watching")
NextEventTakingAnyAsClaimed(i, op_state) ==
    NextEventStepping(i, op_state, "Canceled", "Settling", "Settling")
NextEvent(i, op_state) == NextEventOnCanceled(i, op_state, "Canceled")

\* Lines 152-155: settle the row `id`; a failure panics the task (`expect`), a
\* success is followed by the call of notify_user with the returned row's amount.
SettleStep(i, id, onFailure) ==
    /\ watcher[i].pc = "Settling"
    /\ \E ok \in BOOLEAN :
        IF ok
        THEN /\ ledger' = InvoiceBmc_settle(ledger, id)
             /\ settled' = [settled EXCEPT ![id] =
                    IF ledger[id].state = "Pending" /\ ledger'[id].state = "Settled"
                    THEN @ + 1 ELSE @]
             /\ watcher' = [watcher EXCEPT ![i].pc = "Minting",
                                           ![i].invoice_amount = ledger'[id].amount]
             /\ notified' = [notified EXCEPT ![i] = @ + 1]
        ELSE /\ watcher' = [watcher EXCEPT ![i].pc = onFailure]
             /\ UNCHANGED <<ledger, settled, notified>>
    /\ UNCHANGED <<handler, response, invoices, minted, sent, directory>>

SettleIgnoringFailure(i) == SettleStep(i, i, "Minting")
SettleFirstRow(i) == SettleStep(i, 1, "SettleFailed")
Settle(i) == SettleStep(i, i, "SettleFailed")

\* The notes spend_notes returns for one call.
OOBNotes(i, amount, n) == [for_invoice |-> i, msats |-> amount, serial |-> n]

\* Lines 155 and 171-174: notify_user mints notes for `invoice.amount as u64`;
\* a failure is returned by `?` and panics the task (`expect`).
SpendNotesThen(i, after) ==
    /\ watcher[i].pc = "Minting"
    /\ \E ok \in BOOLEAN :
        IF ok
        THEN /\ minted' = [minted EXCEPT ![i] =
                    Append(@, AsU64(watcher[i].invoice_amount))]
             /\ watcher' = [watcher EXCEPT ![i].pc = after]
        ELSE /\ watcher' = [watcher EXCEPT ![i].pc = "MintFailed"]
             /\ UNCHANGED minted
    /\ UNCHANGED <<handler, response, invoices, ledger, settled, notified, sent, directory>>

SpendNotesWithoutSend(i) == SpendNotesThen(i, "Done")
SpendNotes(i) == SpendNotesThen(i, "Sending")

\* Lines 186-198: the direct message send_nostr_dm sends.
DirectMsg(i, nip05relays, amount, n) ==
    [to |-> nip05relays.pubkey,
     operationId |-> <<"mint", i, n>>,
     amount |-> amount,
     notes |-> OOBNotes(i, amount, n)]

\* Lines 175 and 179-200, then line 158: send the notes to the contact the
\* task was spawned with and leave the loop; a failure is returned by `?` and
\* panics the task.
SendNostrDmTo(i, nip05relays, after) ==
    /\ watcher[i].pc = "Sending"
    /\ \E ok \in BOOLEAN :
        IF ok
        THEN /\ sent' = [sent EXCEPT ![i] =
                    Append(@, DirectMsg(i, nip05relays,
                                        AsU64(watcher[i].invoice_amount), Len(minted[i])))]
             /\ watcher' = [watcher EXCEPT ![i].pc = after]
        ELSE /\ watcher' = [watcher EXCEPT ![i].pc = "SendFailed"]
             /\ UNCHANGED sent
    /\ UNCHANGED <<handler, response, invoices, ledger, settled, notified, minted, directory>>

SendNostrDmThen(i, after) == SendNostrDmTo(i, watcher[i].nip05relays, after)

SendNostrDmWithoutBreak(i) == SendNostrDmThen(i, "Watching")
SendNostrDmResolvingAgain(i) ==
    SendNostrDmTo(i, Nip05RelaysBmc_get_by(watcher[i].nip05relays.name), "Done")
SendNostrDm(i) == SendNostrDmThen(i, "Done")

\* ----------------------------------------------------------- specification
Next ==
    \/ \E r \in Requests, username \in Usernames, amount \in Amounts :
          Receive(r, username, amount)
    \/ \E r \in Requests : GetBy(r)
    \/ \E r \in Requests : CreateBolt11Invoice(r)
    \/ \E r \in Requests : Create(r)
    \/ \E r \in Requests : SubscribeAndSpawn(r)
    \/ \E r \in Requests : Respond(r)
    \/ \E i \in Ids, op_state \in StreamNext : NextEvent(i, op_state)
    \/ \E i \in Ids : Settle(i)
    \/ \E i \in Ids : SpendNotes(i)
    \/ \E i \in Ids : SendNostrDm(i)

Spec == Init /\ [][Next]_vars

\* The runtime resumes a watcher whose awaited call has returned: the settle,
\* the mint and the send of a watcher that is waiting for them do happen.
Fairness ==
    \A i \in Ids :
        /\ WF_vars(Settle(i))
        /\ WF_vars(SpendNotes(i))
        /\ WF_vars(SendNostrDm(i))

\* The callbacks for registered usernames with the largest amount, and the
\* events their watchers act on.
LiveNext ==
    \/ \E r \in Requests, username \in DOMAIN Registered :
          Receive(r, username, U64Range - 1)
    \/ \E r \in Requests : GetBy(r)
    \/ \E r \in Requests : CreateBolt11Invoice(r)
    \/ \E r \in Requests : Create(r)
    \/ \E r \in Requests : SubscribeAndSpawn(r)
    \/ \E r \in Requests : Respond(r)
    \/ \E i \in Ids, op_state \in StreamNext \ {"Funded"} : NextEvent(i, op_state)
    \/ \E i \in Ids : Settle(i)
    \/ \E i \in Ids : SpendNotes(i)
    \/ \E i \in Ids : SendNostrDm(i)

LiveSpec == Init /\ [][LiveNext]_vars /\ Fairness

\* ---------------------------------------------------------- process restart
\* The tasks live in the memory of the process; the ledger, the invoices at
\* the invoice service and the messages sent are outside it.
LiveHandlers ==
    {r \in Requests : handler[r].pc \in
        {"get_by", "create_bolt11_invoice", "create", "subscribe_ln_receive", "respond"}}

LiveWatchers ==
    {i \in Ids : watcher[i].pc \in {"Watching", "Settling", "Minting", "Sending"}}

\* The process stops and starts again: every running handler and watcher is
\* gone, and the start spawns no watcher (the only spawn is the one of
\* handle_callback).
Restart ==
    /\ LiveHandlers \cup LiveWatchers # {}
    /\ handler' = [r \in Requests |->
           IF r \in LiveHandlers THEN [handler[r] EXCEPT !.pc = "aborted"] ELSE handler[r]]
    /\ watcher' = [i \in Ids |->
           IF i \in LiveWatchers THEN [watcher[i] EXCEPT !.pc = "Lost"] ELSE watcher[i]]
    /\ UNCHANGED <<response, invoices, ledger, settled, notified, minted, sent, directory>>

RestartNext ==
    \/ Next
    \/ Restart

RestartSpec == Init /\ [][RestartNext]_vars

\* ------------------------------------------------- registration subsystem
PublicKeys == {"pk_alice", "pk_alice_new"}

\* The external registration subsystem changes the public key of a username
\* that a callback has resolved and whose watcher has not terminated: a
\* change between callback and settlement.
ChangeRegistration(username, pubkey) ==
    /\ username \in DOMAIN directory
    /\ directory[username].pubkey # pubkey
    /\ \E r \in Requests :
          /\ handler[r].nip05relays.name = username
          /\ handler[r].pc \in {"create_bolt11_invoice", "create", "subscribe_ln_receive"}
             \/ handler[r].id \in LiveWatchers
    /\ directory' = [directory EXCEPT ![username].pubkey = pubkey]
    /\ UNCHANGED <<handler, response, invoices, ledger, watcher, settled, notified,
                   minted, sent>>

\* The callbacks for registered usernames with the minimum amount and the
\* events their watchers act on, while the registrations change.
RegistrationNext ==
    \/ \E r \in Requests, username \in DOMAIN Registered : Receive(r, username, MIN_AMOUNT)
    \/ \E r \in Requests : GetBy(r)
    \/ \E r \in Requests : CreateBolt11Invoice(r)
    \/ \E r \in Requests : Create(r)
    \/ \E r \in Requests : SubscribeAndSpawn(r)
    \/ \E r \in Requests : Respond(r)
    \/ \E i \in Ids, op_state \in StreamNext \ {"Funded"} : NextEvent(i, op_state)
    \/ \E i \in Ids : Settle(i)
    \/ \E i \in Ids : SpendNotes(i)
    \/ \E i \in Ids : SendNostrDm(i)
    \/ \E username \in Usernames, pubkey \in PublicKeys :
          ChangeRegistration(username, pubkey)

RegistrationSpec == Init /\ [][RegistrationNext]_vars

\* ------------------------------------------------------------------ claims
\* The ledger rows that record the invoice of request r.
RowsOf(r) ==
    {i \in DOMAIN ledger : ledger[i].op_id = OpIdToString(OperationId(r))}

\* The watchers that consume the settlement stream of request r's invoice.
WatchersOf(r) ==
    {i \in Ids : watcher[i].pc # "none" /\ watcher[i].op_id = OperationId(r)}

\* C1: for every invoice, whatever its stream yields (Claimed any number of
\* times included), the row goes from Pending to Settled at most once,
\* notify_user is called at most once and so notes are minted and a message
\* is sent at most once. Each step the watcher has passed after Claimed has
\* happened exactly once: the settlement and the call of notify_user once the
\* settle has returned, the mint once spend_notes has returned, the send once
\* the watcher has processed Claimed to the end of its branch.
C1_SettledAndDeliveredOnce ==
    \A i \in Ids :
        /\ settled[i] <= 1
        /\ notified[i] <= 1
        /\ Len(minted[i]) <= 1
        /\ Len(sent[i]) <= 1
        /\ watcher[i].pc \in {"Minting", "MintFailed", "Sending", "SendFailed", "Done"} =>
              settled[i] = 1 /\ notified[i] = 1 /\ ledger[i].state = "Settled"
        /\ watcher[i].pc \in {"Sending", "SendFailed", "Done"} => Len(minted[i]) = 1
        /\ watcher[i].pc = "Done" => Len(sent[i]) = 1

C1_Witness ==
    \E i \in Ids :
        /\ watcher[i].pc = "Done"
        /\ ledger[i].state = "Settled"
        /\ settled[i] = 1
        /\ Len(minted[i]) = 1
        /\ Len(sent[i]) = 1

\* Whether the ledger, the only durable state, records the notes minted for
\* row i: its rows have no column for them.
NotesRecorded(i) == "notes" \in DOMAIN ledger[i]

\* C2: minted value is never stranded: there is no state in which notes were
\* minted for an invoice, the send failed, the watcher has terminated, and the
\* notes are neither delivered nor durably recorded.
C2_MintedValueNotLost ==
    \A i \in Ids :
        ~ /\ Len(minted[i]) > 0
          /\ watcher[i].pc = "SendFailed"
          /\ Len(sent[i]) < Len(minted[i])
          /\ ~NotesRecorded(i)

\* C3: once the insert of a request has succeeded, exactly one ledger row
\* records that request; it is Pending when the insert returns, and it is in
\* the ledger in every state in which the success response has been returned.
C3_OneRowBeforeResponse ==
    \A r \in Requests :
        /\ handler[r].pc = "subscribe_ln_receive" =>
              /\ Cardinality(RowsOf(r)) = 1
              /\ \A i \in RowsOf(r) : ledger[i].state = "Pending" /\ i = handler[r].id
        /\ handler[r].pc \in {"respond", "panicked"} \/ response[r].status = 200 =>
              Cardinality(RowsOf(r)) = 1
        /\ handler[r].pc \in {"idle", "get_by", "create_bolt11_invoice", "create"} =>
              RowsOf(r) = {}

C3_Witness ==
    \E r \in Requests :
        /\ response[r].status = 200
        /\ handler[r].amount >= MIN_AMOUNT
        /\ Cardinality(RowsOf(r)) = 1

\* C4: a request whose amount is below the minimum is answered with 400 and
\* leaves no ledger row (and no invoice and no watcher).
C4_BelowMinimumRejected ==
    \A r \in Requests :
        handler[r].pc # "idle" /\ handler[r].amount < MIN_AMOUNT =>
            /\ handler[r].pc = "done"
            /\ response[r].status = 400
            /\ RowsOf(r) = {}
            /\ OperationId(r) \notin invoices
            /\ WatchersOf(r) = {}

C4_Witness ==
    \E r \in Requests :
        /\ handler[r].amount = MIN_AMOUNT - 1
        /\ response[r].status = 400
        /\ RowsOf(r) = {}

\* C5: a request with a valid amount for a username without registration is
\* answered with 404 by the lookup step itself: no invoice is created at the
\* invoice service, no ledger row is created and no watcher is spawned.
C5_UnknownUserRejected ==
    \A r \in Requests :
        /\ handler[r].pc \notin {"idle", "get_by"}
        /\ handler[r].amount >= MIN_AMOUNT
        /\ handler[r].username \notin DOMAIN Registered
        => /\ handler[r].pc = "done"
           /\ handler[r].failed = "get_by"
           /\ response[r].status = 404
           /\ OperationId(r) \notin invoices
           /\ RowsOf(r) = {}
           /\ WatchersOf(r) = {}

C5_Witness ==
    \E r \in Requests :
        /\ handler[r].username = "bob"
        /\ handler[r].amount >= MIN_AMOUNT
        /\ response[r].status = 404
        /\ invoices = {}

\* C6: from the moment a watcher's stream has yielded Canceled to it, the
\* watcher is stopped for good, its row is Pending and nothing was or is
\* settled, minted or sent for that invoice, whatever the stream yields next.
C6_CanceledStaysPending ==
    \A i \in Ids :
        watcher[i].canceled =>
            /\ watcher[i].pc = "Canceled"
            /\ ~ENABLED (\E op_state \in StreamNext : NextEvent(i, op_state))
            /\ ledger[i].state = "Pending"
            /\ settled[i] = 0
            /\ notified[i] = 0
            /\ minted[i] = <<>>
            /\ sent[i] = <<>>

C6_Witness ==
    \E i \in Ids :
        /\ watcher[i].canceled
        /\ watcher[i].pc = "Canceled"
        /\ ledger[i].state = "Pending"
        /\ \A r \in Requests : handler[r].id = i => handler[r].pc = "done"

\* C7: for every accepted amount a, also one above the signed maximum (stored
\* as a negative ledger amount), every amount passed to the minting service
\* and the amount of every payload sent for that invoice equal a.
C7_AmountRoundTrip ==
    \A r \in Requests :
        handler[r].id \in Ids =>
            LET i == handler[r].id
            IN  /\ \A k \in DOMAIN minted[i] : minted[i][k] = handler[r].amount
                /\ \A k \in DOMAIN sent[i] :
                      /\ sent[i][k].amount = handler[r].amount
                      /\ sent[i][k].notes.msats = handler[r].amount

C7_Witness ==
    \E r \in Requests :
        /\ handler[r].id \in Ids
        /\ handler[r].amount > I64Max
        /\ ledger[handler[r].id].amount < 0
        /\ Len(minted[handler[r].id]) = 1
        /\ Len(sent[handler[r].id]) = 1
        /\ sent[handler[r].id][1].amount = handler[r].amount

\* C8: the handler never waits for the watcher: each of its steps is enabled
\* by the handler's own position alone, whatever the watchers have done; in
\* particular the response can be returned as soon as the watcher is spawned.
C8_HandlerNeverWaits ==
    \A r \in Requests :
        /\ handler[r].pc = "get_by" => ENABLED GetBy(r)
        /\ handler[r].pc = "create_bolt11_invoice" => ENABLED CreateBolt11Invoice(r)
        /\ handler[r].pc = "create" => ENABLED Create(r)
        /\ handler[r].pc = "subscribe_ln_receive" => ENABLED SubscribeAndSpawn(r)
        /\ handler[r].pc = "respond" => ENABLED Respond(r)

\* The response is there while the row is Pending and the watcher has not
\* taken a single event.
C8_Witness ==
    \E r \in Requests :
        /\ response[r].status = 200
        /\ handler[r].id \in Ids
        /\ ledger[handler[r].id].state = "Pending"
        /\ watcher[handler[r].id].pc = "Watching"

\* C9: a failure of the lookup, of the invoice creation or of the ledger
\* insert ends the handler with an error response and without a watcher; a
\* failed insert leaves no row although the invoice exists at the service.
C9_FailuresSurfaced ==
    \A r \in Requests :
        handler[r].failed \in {"get_by", "create_bolt11_invoice", "create"} =>
            /\ handler[r].pc = "done"
            /\ response[r].status >= 400
            /\ WatchersOf(r) = {}
            /\ RowsOf(r) = {}
            /\ handler[r].failed = "create" => OperationId(r) \in invoices

C9_Witness ==
    \E r \in Requests :
        /\ handler[r].failed = "create"
        /\ response[r].status = 500
        /\ OperationId(r) \in invoices
        /\ RowsOf(r) = {}
        /\ WatchersOf(r) = {}

\* C10: in a success response, pr is the string of the invoice the issuer
\* returned and equals the row's bolt11; the verify URL carries the request's
\* username and the operation id that the row records and whose stream the
\* spawned watcher consumes.
C10_ResponseMatchesRow ==
    \A r \in Requests :
        response[r].status = 200 =>
            LET i == handler[r].id
                issued == Bolt11Invoice(OperationId(r), handler[r].amount)
            IN  /\ i \in DOMAIN ledger
                /\ response[r].pr = Bolt11ToString(issued)
                /\ response[r].pr = ledger[i].bolt11
                /\ response[r].verify.path[2] = handler[r].username
                /\ response[r].verify.path[4] = ledger[i].op_id
                /\ watcher[i].pc # "none"
                /\ response[r].verify.path[4] = OpIdToString(watcher[i].op_id)
                /\ watcher[i].op_id = OperationId(r)

C10_Witness ==
    \E r \in Requests :
        /\ response[r].status = 200
        /\ handler[r].username = "alice"
        /\ response[r].pr = ledger[handler[r].id].bolt11
        /\ response[r].verify.path = <<"lnurlp", "alice", "verify", ledger[handler[r].id].op_id>>

\* C11: after a restart of the process every row that is still Pending is
\* watched again: no Pending row is left with its watcher lost.
C11_PendingRowsRewatched ==
    \A i \in Ids :
        watcher[i].pc = "Lost" => ledger[i].state # "Pending"

\* C12: the watcher settles, then mints, then sends: a message sent for an
\* invoice implies notes minted for it, and notes minted for an invoice imply
\* that its row is Settled.
C12_SettleThenMintThenSend ==
    \A i \in Ids :
        /\ Len(sent[i]) > 0 => Len(minted[i]) >= Len(sent[i])
        /\ Len(minted[i]) > 0 => ledger[i].state = "Settled" /\ settled[i] = 1
        /\ watcher[i].pc = "Sending" => Len(minted[i]) > 0 /\ sent[i] = <<>>
        /\ watcher[i].pc = "Minting" => ledger[i].state = "Settled" /\ minted[i] = <<>>

C12_Witness ==
    \E i \in Ids :
        /\ Len(sent[i]) > 0
        /\ Len(minted[i]) > 0
        /\ ledger[i].state = "Settled"
        /\ \E j \in Ids : watcher[j].pc = "Sending" /\ sent[j] = <<>>

WatcherFailed(i) == watcher[i].pc \in {"SettleFailed", "MintFailed", "SendFailed"}

\* The row is Settled, the watcher has terminated, and exactly one message was
\* sent: to the public key resolved by the callback, with the amount of the
\* request and the notes minted for it.
Delivered(i) ==
    /\ watcher[i].pc = "Done"
    /\ ledger[i].state = "Settled"
    /\ Len(minted[i]) = 1
    /\ Len(sent[i]) = 1
    /\ sent[i][1].notes = OOBNotes(i, minted[i][1], 1)
    /\ \E r \in Requests :
          /\ handler[r].id = i
          /\ sent[i][1].amount = handler[r].amount
          /\ sent[i][1].to = handler[r].nip05relays.pubkey

\* C13: under fairness, a watcher whose stream has yielded Claimed to it (so
\* before any Canceled and before the end) and whose settle, mint and send do
\* not fail eventually has its row Settled, exactly one payload with the
\* invoice's amount and the minted notes sent to the resolved public key, and
\* has terminated.
C13_ClaimedLeadsToDelivery ==
    \A i \in Ids :
        (watcher[i].pc = "Settling") ~> (WatcherFailed(i) \/ Delivered(i))

C13_Witness ==
    \E i \in Ids :
        /\ Delivered(i)
        /\ watcher[i].last = "Claimed"
        /\ sent[i][1].to = "pk_alice"

\* C14: a failed settle, mint or send ends that watcher and nothing later
\* happens for its invoice (no mint without a successful settle, no send
\* without a mint); the failing step changes no handler, no ledger row and no
\* other watcher, mint or delivery.
C14_FailureIsLocal ==
    /\ [](\A i \in Ids :
            /\ watcher[i].pc = "SettleFailed" =>
                  /\ ledger[i].state = "Pending"
                  /\ notified[i] = 0 /\ minted[i] = <<>> /\ sent[i] = <<>>
            /\ watcher[i].pc = "MintFailed" => minted[i] = <<>> /\ sent[i] = <<>>
            /\ watcher[i].pc = "SendFailed" => sent[i] = <<>>
            /\ Len(minted[i]) > 0 => settled[i] = 1
            /\ Len(sent[i]) > 0 => Len(minted[i]) > 0)
    /\ [][\A i \in Ids :
            /\ WatcherFailed(i) => watcher'[i] = watcher[i]
            /\ ~WatcherFailed(i) /\ watcher'[i].pc \in {"SettleFailed", "MintFailed", "SendFailed"} =>
                  /\ handler' = handler
                  /\ response' = response
                  /\ ledger' = ledger
                  /\ minted' = minted
                  /\ sent' = sent
                  /\ \A j \in Ids \ {i} : watcher'[j] = watcher[j]]_vars

C14_Witness ==
    \E i, j \in Ids :
        /\ watcher[i].pc = "SettleFailed"
        /\ watcher[j].pc = "Done"
        /\ Len(sent[j]) = 1

\* C15: every successful callback has spawned exactly one watcher, no row has
\* ever had more than one watcher spawned for it, and every watcher consumes
\* the stream of the operation its own row records, which no other watcher
\* consumes.
C15_OneWatcherPerInvoice ==
    /\ \A r \in Requests :
          /\ Cardinality(WatchersOf(r)) <= 1
          /\ response[r].status = 200 => WatchersOf(r) = {handler[r].id}
    /\ \A i \in Ids :
          /\ watcher[i].spawns <= 1
          /\ watcher[i].pc # "none" =>
                /\ watcher[i].spawns = 1
                /\ i \in DOMAIN ledger
                /\ ledger[i].op_id = OpIdToString(watcher[i].op_id)

C15_Witness ==
    \E r1, r2 \in Requests :
        /\ r1 # r2
        /\ response[r1].status = 200
        /\ response[r2].status = 200
        /\ WatchersOf(r1) = {handler[r1].id}
        /\ WatchersOf(r2) = {handler[r2].id}
        /\ handler[r1].id # handler[r2].id

\* Nothing was settled, minted or sent for row i.
Untouched(i) ==
    /\ i \in DOMAIN ledger => ledger[i].state = "Pending"
    /\ settled[i] = 0
    /\ notified[i] = 0
    /\ minted[i] = <<>>
    /\ sent[i] = <<>>

\* C16: the watcher touches the ledger, the mint and the transport only after
\* its stream has yielded Claimed; after any other non-terminal event it is
\* still consuming with nothing touched, and after the end of the stream it
\* has terminated with the row Pending and nothing minted or sent.
C16_OnlyClaimedActs ==
    \A i \in Ids :
        /\ watcher[i].last # "Claimed" => Untouched(i)
        /\ watcher[i].pc # "none" /\ watcher[i].last \in {None, "Funded"} =>
              watcher[i].pc = "Watching"
        /\ watcher[i].last = "EndOfStream" => watcher[i].pc = "Ended" /\ Untouched(i)

C16_Witness ==
    \E i, j \in Ids :
        /\ watcher[i].last = "Funded"
        /\ watcher[i].pc = "Watching"
        /\ ledger[i].state = "Pending"
        /\ watcher[j].last = "EndOfStream"
        /\ watcher[j].pc = "Ended"
        /\ ledger[j].state = "Pending"

\* C17: no step deletes a row or changes its id, operation id, amount or
\* invoice; a row's status changes only from Pending to Settled, and only in
\* the settle step of its own watcher after Claimed.
C17_RowsOnlySettle ==
    [][\A i \in DOMAIN ledger :
          /\ i \in DOMAIN ledger'
          /\ ledger'[i].id = ledger[i].id
          /\ ledger'[i].op_id = ledger[i].op_id
          /\ ledger'[i].amount = ledger[i].amount
          /\ ledger'[i].bolt11 = ledger[i].bolt11
          /\ ledger'[i].state # ledger[i].state =>
                /\ ledger[i].state = "Pending"
                /\ ledger'[i].state = "Settled"
                /\ watcher[i].pc = "Settling"
                /\ watcher[i].last = "Claimed"
                /\ watcher'[i].pc = "Minting"]_vars

C17_Witness ==
    \E i, j \in DOMAIN ledger :
        /\ watcher[i].pc = "Minting"
        /\ ledger[i].state = "Settled"
        /\ settled[i] = 1
        /\ ledger[j].state = "Pending"

\* C18: a row whose handler is no longer running has a watcher, also when
\* the subscription failed.
C18_RowHasWatcher ==
    \A r \in Requests :
        RowsOf(r) # {} /\ handler[r].pc \in {"done", "panicked"} => WatchersOf(r) # {}

\* C19: every message for an invoice is addressed to the public key the
\* callback resolved, which the watcher carries, whatever the directory holds
\* for the username by the time of the send.
C19_AddresseeIsSnapshot ==
    \A r \in Requests :
        handler[r].id \in Ids =>
            LET i == handler[r].id
            IN  /\ watcher[i].pc # "none" =>
                      watcher[i].nip05relays = handler[r].nip05relays
                /\ \A k \in DOMAIN sent[i] :
                      sent[i][k].to = handler[r].nip05relays.pubkey

C19_Witness ==
    \E r \in Requests :
        /\ handler[r].id \in Ids
        /\ Len(sent[handler[r].id]) = 1
        /\ sent[handler[r].id][1].to = "pk_alice"
        /\ handler[r].nip05relays.pubkey = "pk_alice"
        /\ directory["alice"].pubkey = "pk_alice_new"

====
